---- MODULE Spec2Model ----
(***************************************************************************)
(* Peer state synchronisation and combat-event relay of the top-down       *)
(* shooter.                                                                *)
(*                                                                         *)
(* Two servers live in the repository:                                     *)
(*   - the relay server that public/game.js documents in its trailing      *)
(*     "server.js" block (lines 451-489): welcome / state / fire /         *)
(*     enemy_fire / peers_state.  It is the server the client of           *)
(*     public/game.js talks to.  Specification Spec.                       *)
(*   - the root server.js: playerJoin / playerMove / playerShoot /         *)
(*     playerLeft.  Specification SpecGame.                                *)
(* The client side is the socket wiring of BaseLevelScene.setupSocket.     *)
(***************************************************************************)
EXTENDS Integers, Sequences, FiniteSets, TLC

\* ------------------------------------------------------------------ bounds
\* number of connections the transport hands out during one run
MaxSockets == 2
\* longest shots array a client sends in one fire / enemy_fire event
MaxShots == 2
\* messages in flight that do not keep the next sending handler waiting
MaxInFlight == 0
\* state events handled during one run
MaxUpdates == 1

\* ------------------------------------------------------------ program values
\* this.playerId = null before the welcome arrives (game.js:81)
NullId == 0
\* an id value that is not a string (a number put in a state payload)
NonStringId == -1
\* the property key the non-string id is coerced to by this.peers[s.id]
NonStringKey == -2

\* socket.id values: strings, unique per connection, handed out by the transport
SocketIds == 1..MaxSockets

Fields == {"x", "y", "rot", "hp", "weapon"}

\* the spawn of the root server.js (x: 1000, y: 1000) in place of the relay's
MutDefaultState == [x |-> 1000, y |-> 1000, rot |-> 0, hp |-> 6, weapon |-> "pistol"]

\* clients.set(socket.id, { x: 480, y: 320, rot: 0, hp: 6, weapon: 'pistol' })
DefaultState == [x |-> 480, y |-> 320, rot |-> 0, hp |-> 6, weapon |-> "pistol"]

\* payloads of the 'state' event the model draws from: the full state the
\* client of game.js:264 sends, a partial state, and an object that carries an
\* id field (the server does not validate the payload)
StateUpdates ==
  { [x |-> 1, y |-> 2, rot |-> 1, hp |-> 5, weapon |-> "shotgun"],
    [x |-> 3, hp |-> 4],
    [id |-> NonStringId] }

\* shots: { x, y, dx, dy, speed }
ShotA == [x |-> 10, y |-> 20, dx |-> 1, dy |-> 0, speed |-> 560]
ShotB == [x |-> 30, y |-> 40, dx |-> 0, dy |-> 1, speed |-> 440]

\* a volley of n shots, no two neighbours alike
Volley(n) == [i \in 1..n |-> IF i % 2 = 1 THEN ShotA ELSE ShotB]

\* a payload that is not an array (Array.isArray(shots) is false): one shot
\* object sent without the array around it
NotAnArray == [isArray |-> FALSE, items |-> << ShotA >>]

ShotArray(n) == [isArray |-> TRUE, items |-> Volley(n)]

\* payloads of 'fire': an array of 0..MaxShots shots, or a value that is no array
FirePayloads == { ShotArray(n) : n \in 0..MaxShots } \cup { NotAnArray }

\* payloads of 'enemy_fire', which the handler relays without looking at them
EnemyFirePayloads == { ShotArray(MaxShots), NotAnArray }

\* ------------------------------------------------------------------- state
VARIABLES
  phase,         \* relay: per socket "unused" | "open" | "connected" | "closed"
  nextId,        \* relay: next socket id the transport hands out
  clientsCount,  \* relay: io.engine.clientsCount
  clients,       \* relay: the Map id -> state, as its entries in insertion order
  inbox,         \* relay: per socket, the messages sent to it and not yet handled
  connects,      \* relay: 'connection' events handled so far
  disconnects,   \* relay: 'disconnect' events handled so far
  updates,       \* relay: 'state' events handled so far
  told,          \* relay: per socket, what its welcome said: "host" | "guest", or "none"
  playerId,      \* client: this.playerId, per client (named by its socket)
  isHost,        \* client: this.isHost
  peers,         \* client: the keys of this.peers
  gPhase,        \* server.js: per socket "unused" | "connected" | "closed"
  gPlayers,      \* server.js: gameState.players, id -> player
  gBullets,      \* server.js: gameState.bullets, in the order they were added
  gEmitted,      \* server.js: per socket, what the last handler sent to it
  gLast          \* server.js: the last event handled, with its inputs

relayVars == << phase, nextId, clientsCount, clients, inbox,
               connects, disconnects, updates, told, playerId, isHost, peers >>

gameVars == << gPhase, gPlayers, gBullets, gEmitted, gLast >>

vars == << relayVars, gameVars >>

clientVars == << playerId, isHost, peers >>

\* ----------------------------------------------------------- Map operations
\* clients.has(id)
Has(reg, id) == \E i \in 1..Len(reg) : reg[i].id = id

\* clients.get(id), for an id the map has
Get(reg, id) == reg[CHOOSE i \in 1..Len(reg) : reg[i].id = id].st

\* clients.set(id, st): an existing key keeps its place, a new key goes last
Set(reg, id, st) ==
  IF Has(reg, id)
  THEN [i \in 1..Len(reg) |-> IF reg[i].id = id THEN [id |-> id, st |-> st] ELSE reg[i]]
  ELSE Append(reg, [id |-> id, st |-> st])

\* a disconnect handler that forgets to delete
MutDeleteNothing(reg, id) == reg

\* clients.delete(id)
Delete(reg, id) ==
  LET keep(e) == e.id # id IN SelectSeq(reg, keep)

Keys(reg) == { reg[i].id : i \in 1..Len(reg) }

\* { ...cur, ...st }: the fields of st overwrite, the others are kept
Merge(cur, st) ==
  [f \in (DOMAIN cur) \cup (DOMAIN st) |-> IF f \in DOMAIN st THEN st[f] ELSE cur[f]]

\* a state handler that takes the numbers of the payload as deltas
MutMergeStateAdds(cur, st) ==
  [f \in (DOMAIN cur) \cup (DOMAIN st) |->
     IF f \notin DOMAIN st THEN cur[f]
     ELSE IF f \in DOMAIN cur /\ f # "weapon" THEN cur[f] + st[f]
     ELSE st[f]]

\* a state handler that stores the payload in place of the merged state
MutMergeStateReplace(cur, st) == st

\* clients.set(socket.id, { ...cur, ...st })
MergeState(cur, st) == Merge(cur, st)

\* ({ id, ...s }): id first, then the stored state spread over it
Entry(id, s) == Merge([id |-> id], s)

\* Array.from(clients.entries()).map(([id, s]) => ({ id, ...s }))
Snapshot(reg) == [i \in 1..Len(reg) |-> Entry(reg[i].id, reg[i].st)]

\* a host test that also holds for later connections
MutIsHostAtAnyCount(count) == count >= 1

\* const isHost = io.engine.clientsCount === 1
IsHostAt(count) == count = 1

\* ------------------------------------------------------------- the network
\* sockets of the namespace: 'connection' handled, 'disconnect' not yet
Connected == { s \in SocketIds : phase[s] = "connected" }

\* io.emit reaches every socket of the namespace
AllTargets == Connected

\* io.emit in place of socket.broadcast.emit
MutBroadcastToAll(s) == Connected

\* socket.broadcast.emit reaches every socket of the namespace but the sender
BroadcastTargets(s) == Connected \ {s}

RECURSIVE SumLen(_, _)
SumLen(q, S) ==
  IF S = {} THEN 0
  ELSE LET t == CHOOSE u \in S : TRUE IN Len(q[t]) + SumLen(q, S \ {t})

\* messages sent and not yet handled, over all clients
InFlight == SumLen(inbox, SocketIds)

\* the bound on what is in flight: a handler that sends runs when the network
\* is idle, or when what it sends still fits
Room(targets, n) ==
  \/ n = 0
  \/ InFlight = 0
  \/ InFlight + n * Cardinality(targets) <= MaxInFlight

\* the handler sends msgs, in order, to each of targets
Send(targets, msgs) ==
  /\ inbox' = [t \in SocketIds |-> IF t \in targets THEN inbox[t] \o msgs ELSE inbox[t]]
  /\ Room(targets, Len(msgs))

SendNothing == inbox' = inbox

Welcome(id, host) == [type |-> "welcome", id |-> id, isHost |-> host]
PeersState(states) == [type |-> "peers_state", states |-> states]
RemoteFire(shot) == [type |-> "remote_fire", shot |-> shot]
EnemyFireMsg(payload) == [type |-> "enemy_fire", shots |-> payload]

\* a relay that walks the array from its end
MutRemoteFiresReversed(items) ==
  [i \in 1..Len(items) |-> RemoteFire(items[Len(items) + 1 - i])]

\* shots.forEach(s => socket.broadcast.emit('remote_fire', s))
RemoteFires(items) == [i \in 1..Len(items) |-> RemoteFire(items[i])]

\* ------------------------------------------------------- relay server steps
\* The transport accepts a connection: engine.io counts the client at its
\* handshake, before socket.io raises 'connection' for it.
EngineOpen ==
  /\ nextId <= MaxSockets
  /\ phase' = [phase EXCEPT ![nextId] = "open"]
  /\ nextId' = nextId + 1
  /\ clientsCount' = clientsCount + 1
  /\ UNCHANGED << clients, inbox, connects, disconnects, updates, told, clientVars, gameVars >>

\* io.on('connection', socket => ...)
Connection(s) ==
  /\ phase[s] = "open"
  /\ Room({s}, 1)
  /\ LET host == IsHostAt(clientsCount) IN
       /\ clients' = Set(clients, s, DefaultState)
       /\ phase' = [phase EXCEPT ![s] = "connected"]
       /\ inbox' = [inbox EXCEPT ![s] = << Welcome(s, host) >>]
       /\ told' = [told EXCEPT ![s] = IF host THEN "host" ELSE "guest"]
  /\ connects' = connects + 1
  /\ UNCHANGED << nextId, clientsCount, disconnects, updates, clientVars, gameVars >>

\* const cur = clients.get(id); if (!cur) return; clients.set(id, {...cur, ...st})
StateHandler(reg, id, st) ==
  IF ~Has(reg, id) THEN reg
  ELSE Set(reg, id, MergeState(Get(reg, id), st))

\* socket.on('state', st => ...)
OnState(s, st) ==
  /\ phase[s] = "connected"
  /\ updates < MaxUpdates
  /\ updates' = updates + 1
  /\ clients' = StateHandler(clients, s, st)
  /\ SendNothing
  /\ UNCHANGED << phase, nextId, clientsCount, connects, disconnects, told, clientVars, gameVars >>

\* a test that lets every payload through
MutIsArrayAlways(shots) == TRUE

\* Array.isArray(shots)
IsArray(shots) == shots.isArray

\* socket.on('fire', shots => ...)
OnFire(s, shots) ==
  /\ phase[s] = "connected"
  /\ IF ~IsArray(shots) THEN SendNothing
     ELSE Send(BroadcastTargets(s), RemoteFires(shots.items))
  /\ UNCHANGED << phase, nextId, clientsCount, clients, connects, disconnects, updates, told, clientVars, gameVars >>

\* socket.on('enemy_fire', shots => ...)
OnEnemyFire(s, shots) ==
  /\ phase[s] = "connected"
  /\ Send(BroadcastTargets(s), << EnemyFireMsg(shots) >>)
  /\ UNCHANGED << phase, nextId, clientsCount, clients, connects, disconnects, updates, told, clientVars, gameVars >>

\* socket.on('disconnect', () => { clients.delete(socket.id); })
\* The transport is closed: engine.io drops the client from its count and
\* whatever was in flight to it is lost.  The client has left the session: the
\* model stops tracking its scene.
OnDisconnect(s) ==
  /\ phase[s] = "connected"
  /\ clients' = Delete(clients, s)
  /\ phase' = [phase EXCEPT ![s] = "closed"]
  /\ clientsCount' = clientsCount - 1
  /\ inbox' = [inbox EXCEPT ![s] = << >>]
  /\ disconnects' = disconnects + 1
  /\ playerId' = [playerId EXCEPT ![s] = NullId]
  /\ isHost' = [isHost EXCEPT ![s] = FALSE]
  /\ peers' = [peers EXCEPT ![s] = {}]
  /\ UNCHANGED << nextId, connects, updates, told, gameVars >>

\* setInterval(() => { ...; io.emit('peers_state', states); }, 100)
BroadcastTick ==
  /\ Send(AllTargets, << PeersState(Snapshot(clients)) >>)
  /\ UNCHANGED << phase, nextId, clientsCount, clients, connects, disconnects, updates, told, clientVars, gameVars >>

\* ------------------------------------------------------------- client steps
Head1(c) == Head(inbox[c])

Deliverable(c, type) ==
  /\ phase[c] = "connected"
  /\ inbox[c] # << >>
  /\ Head1(c).type = type

Consume(c) ==
  /\ inbox' = [inbox EXCEPT ![c] = Tail(inbox[c])]
  /\ UNCHANGED << phase, nextId, clientsCount, clients,
                  connects, disconnects, updates, told, gameVars >>

\* this.socket.on('welcome', data => { this.playerId = data.id; this.isHost = data.isHost; })
RecvWelcome(c) ==
  /\ Deliverable(c, "welcome")
  /\ playerId' = [playerId EXCEPT ![c] = Head1(c).id]
  /\ isHost' = [isHost EXCEPT ![c] = Head1(c).isHost]
  /\ Consume(c)
  /\ UNCHANGED peers

\* this.peers[s.id]: a property key is a string
KeyOf(id) == IF id \in SocketIds THEN id ELSE NonStringKey

SnapshotIds(states) == { states[i].id : i \in 1..Len(states) }

\* the peers_state handler: a sprite for every entry that is not one's own, then
\* every key that no entry's id is strictly equal to is destroyed
ApplyPeersState(pid, known, states) ==
  LET spawned == known \cup { KeyOf(states[i].id) :
                                i \in { j \in 1..Len(states) : states[j].id # pid } }
  IN { k \in spawned : \E i \in 1..Len(states) : states[i].id = k }

RecvPeersState(c) ==
  /\ Deliverable(c, "peers_state")
  /\ peers' = [peers EXCEPT ![c] = ApplyPeersState(playerId[c], peers[c], Head1(c).states)]
  /\ Consume(c)
  /\ UNCHANGED << playerId, isHost >>

\* 'remote_fire': a bullet of the engine is spawned, no net state changes
RecvRemoteFire(c) ==
  /\ Deliverable(c, "remote_fire")
  /\ Consume(c)
  /\ UNCHANGED clientVars

\* 'enemy_fire': bullets of the engine are spawned, no net state changes
RecvEnemyFire(c) ==
  /\ Deliverable(c, "enemy_fire")
  /\ Consume(c)
  /\ UNCHANGED clientVars

\* ------------------------------------------------------- root server.js
\* bullets gameState.bullets holds at most, in a run of the model
MaxBullets == 2

\* data.y of a payload without y
Undefined == -99

\* tint: playerData.tint || 0x4ec9b0
DefaultTint == 5163440

\* x: playerData.x || 1000,  y: playerData.y || 1000
DefaultSpawn == 1000

GConnected == { s \in SocketIds : gPhase[s] = "connected" }

\* playerJoin payloads: nothing given, everything given, and a zero coordinate
JoinPayloads ==
  { << >>,
    [x |-> 5, y |-> 7, tint |-> 255, name |-> "Ann"],
    [x |-> 0, y |-> 7] }

\* playerMove payloads: both coordinates, and x alone
MovePayloads == { [x |-> 8, y |-> 9], [x |-> 8] }

\* playerShoot payloads
ShootPayloads == { ShotA, ShotB }

\* v || d for a number: 0 and a missing field are falsy
NumOr(data, f, d) == IF f \in DOMAIN data /\ data[f] # 0 THEN data[f] ELSE d

\* v || d for a string: '' and a missing field are falsy
StrOr(data, f, d) == IF f \in DOMAIN data /\ data[f] # "" THEN data[f] ELSE d

\* data.f
FieldOf(data, f) == IF f \in DOMAIN data THEN data[f] ELSE Undefined

\* gameState.players[id] = p
PutPlayer(players, id, p) ==
  [k \in (DOMAIN players) \cup {id} |-> IF k = id THEN p ELSE players[k]]

\* delete gameState.players[id]
DeletePlayer(players, id) == [k \in (DOMAIN players) \ {id} |-> players[k]]

\* io.emit / socket.broadcast.emit / socket.emit: msg to each of targets
GSend(targets, msg) ==
  gEmitted' = [t \in SocketIds |-> IF t \in targets THEN << msg >> ELSE << >>]

\* io.on('connection', socket => { console.log(...); ... })
GConnection(s) ==
  /\ gPhase[s] = "unused"
  /\ gPhase' = [gPhase EXCEPT ![s] = "connected"]
  /\ gEmitted' = [t \in SocketIds |-> << >>]
  /\ gLast' = [op |-> "connection", id |-> s]
  /\ UNCHANGED << gPlayers, gBullets, relayVars >>

\* socket.on('playerJoin', playerData => ...)
GPlayerJoin(s, data) ==
  /\ gPhase[s] = "connected"
  /\ LET p == [id |-> s,
               x |-> NumOr(data, "x", DefaultSpawn),
               y |-> NumOr(data, "y", DefaultSpawn),
               tint |-> NumOr(data, "tint", DefaultTint),
               name |-> StrOr(data, "name", "Player")]
         joined == PutPlayer(gPlayers, s, p)
     IN /\ gPlayers' = joined
        /\ gEmitted' = [t \in SocketIds |->
             IF t = s THEN << [type |-> "gameState", players |-> joined, bullets |-> gBullets] >>
             ELSE IF t \in GConnected THEN << [type |-> "playerJoined", player |-> p] >>
             ELSE << >>]
  /\ gLast' = [op |-> "playerJoin", id |-> s, data |-> data]
  /\ UNCHANGED << gPhase, gBullets, relayVars >>

\* a move handler without the test: the coordinates are stored under the id
MutMovePlayerUnguarded(players, id, data) ==
  PutPlayer(players, id, [id |-> id, x |-> FieldOf(data, "x"), y |-> FieldOf(data, "y")])

\* if (gameState.players[socket.id]) { players[id].x = data.x; players[id].y = data.y; }
MovePlayer(players, id, data) ==
  IF id \in DOMAIN players
  THEN [players EXCEPT ![id].x = FieldOf(data, "x"), ![id].y = FieldOf(data, "y")]
  ELSE players

\* socket.on('playerMove', data => ...)
GPlayerMove(s, data) ==
  /\ gPhase[s] = "connected"
  /\ gPlayers' = MovePlayer(gPlayers, s, data)
  /\ IF s \in DOMAIN gPlayers
     THEN GSend(GConnected \ {s},
                [type |-> "playerMoved", id |-> s,
                 x |-> FieldOf(data, "x"), y |-> FieldOf(data, "y")])
     ELSE gEmitted' = [t \in SocketIds |-> << >>]
  /\ gLast' = [op |-> "playerMove", id |-> s, data |-> data]
  /\ UNCHANGED << gPhase, gBullets, relayVars >>

\* socket.on('playerShoot', bulletData => ...): the bullet is stored under a
\* fresh id (Date.now() + Math.random()) and sent to everyone
GPlayerShoot(s, data) ==
  /\ gPhase[s] = "connected"
  /\ Len(gBullets) < MaxBullets
  /\ LET b == [id |-> Len(gBullets) + 1, x |-> data.x, y |-> data.y,
               dx |-> data.dx, dy |-> data.dy, speed |-> data.speed, playerId |-> s]
     IN /\ gBullets' = Append(gBullets, b)
        /\ GSend(GConnected, [type |-> "bulletFired", bullet |-> b])
  /\ gLast' = [op |-> "playerShoot", id |-> s, data |-> data]
  /\ UNCHANGED << gPhase, gPlayers, relayVars >>

\* socket.on('disconnect', () => { delete ...; io.emit('playerLeft', socket.id); })
GDisconnect(s) ==
  /\ gPhase[s] = "connected"
  /\ gPhase' = [gPhase EXCEPT ![s] = "closed"]
  /\ gPlayers' = DeletePlayer(gPlayers, s)
  /\ GSend(GConnected \ {s}, [type |-> "playerLeft", id |-> s])
  /\ gLast' = [op |-> "disconnect", id |-> s, registered |-> s \in DOMAIN gPlayers]
  /\ UNCHANGED << gBullets, relayVars >>

\* ------------------------------------------------------------ specification
Init ==
  /\ phase = [s \in SocketIds |-> "unused"]
  /\ nextId = 1
  /\ clientsCount = 0
  /\ clients = << >>
  /\ inbox = [s \in SocketIds |-> << >>]
  /\ connects = 0
  /\ disconnects = 0
  /\ updates = 0
  /\ told = [s \in SocketIds |-> "none"]
  /\ playerId = [s \in SocketIds |-> NullId]
  /\ isHost = [s \in SocketIds |-> FALSE]
  /\ peers = [s \in SocketIds |-> {}]
  /\ gPhase = [s \in SocketIds |-> "unused"]
  /\ gPlayers = << >>
  /\ gBullets = << >>
  /\ gEmitted = [s \in SocketIds |-> << >>]
  /\ gLast = [op |-> "none"]

Next ==
  \/ EngineOpen
  \/ \E s \in SocketIds : Connection(s)
  \/ \E s \in SocketIds, st \in StateUpdates : OnState(s, st)
  \/ \E s \in SocketIds, shots \in FirePayloads : OnFire(s, shots)
  \/ \E s \in SocketIds, shots \in EnemyFirePayloads : OnEnemyFire(s, shots)
  \/ \E s \in SocketIds : OnDisconnect(s)
  \/ BroadcastTick
  \/ \E c \in SocketIds : RecvWelcome(c)
  \/ \E c \in SocketIds : RecvPeersState(c)
  \/ \E c \in SocketIds : RecvRemoteFire(c)
  \/ \E c \in SocketIds : RecvEnemyFire(c)

Spec == Init /\ [][Next]_vars

NextGame ==
  \/ \E s \in SocketIds : GConnection(s)
  \/ \E s \in SocketIds, data \in JoinPayloads : GPlayerJoin(s, data)
  \/ \E s \in SocketIds, data \in MovePayloads : GPlayerMove(s, data)
  \/ \E s \in SocketIds, data \in ShootPayloads : GPlayerShoot(s, data)
  \/ \E s \in SocketIds : GDisconnect(s)

SpecGame == Init /\ [][NextGame]_vars

\* ------------------------------------------------------------------ claims
\* connected peers whose welcome said isHost = true
Hosts == { c \in Connected : told[c] = "host" }

\* a step of a handler that only sends: the registry, the connections and the
\* clients stay as they are
OnlySends ==
  /\ phase' = phase
  /\ updates' = updates
  /\ playerId' = playerId
  /\ peers' = peers

\* what a relayed shot and a relayed volley look like on the wire
RemoteFireOf(shot) == [type |-> "remote_fire", shot |-> shot]
EnemyFireOf(payload) == [type |-> "enemy_fire", shots |-> payload]

C2_OneHostAfterFirstConnection ==
  [][ /\ Cardinality(Hosts') <= 1
      /\ \A s \in SocketIds :
           (s \notin Connected /\ s \in Connected' /\ clients = << >>)
             => Cardinality(Hosts') = 1 ]_vars

\* C3: the host flag is fixed by the welcome: a connected peer's flag never
\* changes, the client holds what its welcome said, a peer that connects while
\* others are connected is no host, and a session that has peers and no host
\* gets none as long as a peer stays.
C3_HostFixedAtConnect ==
  [][ /\ \A c \in Connected \cap Connected' :
           /\ told'[c] = told[c]
           /\ playerId[c] # NullId => isHost'[c] = isHost[c]
      /\ \A c \in Connected' :
           playerId'[c] # NullId => (isHost'[c] <=> told'[c] = "host")
      /\ \A s \in Connected' \ Connected :
           Connected # {} => told'[s] = "guest"
      /\ (Connected # {} /\ Hosts = {}) => Hosts' = {} ]_vars

\* the host has left and the peer that stays was told, and holds, isHost = false
C3_Witness ==
  \E a, b \in SocketIds :
    /\ phase[a] = "closed" /\ told[a] = "host"
    /\ b \in Connected /\ told[b] = "guest"
    /\ playerId[b] = b /\ ~isHost[b]

C5_SnapshotTaggedWithOwnId ==
  [][ (OnlySends /\ BroadcastTick) =>
        \A t \in Connected :
          /\ Len(inbox'[t]) = Len(inbox[t]) + 1
          /\ LET msg == inbox'[t][Len(inbox'[t])] IN
               /\ msg.type = "peers_state"
               /\ Len(msg.states) = Len(clients)
               /\ \A i \in 1..Len(clients) :
                    /\ msg.states[i].id = clients[i].id
                    /\ \A f \in Fields : msg.states[i][f] = clients[i].st[f] ]_vars

\* C6 as claimed: the enemy_fire volley reaches every connected peer, the
\* sender included.
C6_EnemyFireToAll ==
  [][ OnlySends =>
        \A s \in Connected, p \in EnemyFirePayloads :
          OnEnemyFire(s, p) =>
            \A t \in Connected : inbox'[t] = Append(inbox[t], EnemyFireOf(p)) ]_vars

\* C6 as amended: the enemy_fire volley reaches, as one message carrying the
\* payload unchanged, every connected peer but the sender, and no one else.
C6_EnemyFireToOthers ==
  [][ OnlySends =>
        \A s \in Connected, p \in EnemyFirePayloads :
          OnEnemyFire(s, p) =>
            \A t \in SocketIds :
              inbox'[t] = IF t \in Connected \ {s}
                          THEN Append(inbox[t], EnemyFireOf(p))
                          ELSE inbox[t] ]_vars

\* an enemy volley is on its way to a peer and not to another connected peer
C6_Witness ==
  \E s, t \in Connected :
    /\ s # t
    /\ inbox[s] = << >>
    /\ inbox[t] = << EnemyFireOf(ShotArray(MaxShots)) >>

\* C7 as claimed (root server.js): the disconnect of a registered peer removes
\* its entry and sends playerLeft with its id to the connected peers; the
\* disconnect of a peer that is not registered changes and sends nothing.
C7_PeerLeftOnlyForRegistered ==
  gLast.op = "disconnect" =>
    /\ gLast.id \notin DOMAIN gPlayers
    /\ \A t \in SocketIds :
         gEmitted[t] = IF gLast.registered /\ t \in GConnected
                       THEN << [type |-> "playerLeft", id |-> gLast.id] >>
                       ELSE << >>

C10_PeersAreSnapshotIds ==
  [][ \A c \in SocketIds :
        (inbox'[c] # inbox[c] /\ RecvPeersState(c)) =>
          peers'[c] = SnapshotIds(Head(inbox[c]).states) \ {playerId[c]} ]_vars

\* C11: a state update for an id that is not registered changes nothing and
\* sends nothing.  Root server: a playerMove of a socket that has not joined
\* leaves gameState.players as it was, with no entry for the socket, and no
\* socket is sent anything.  Relay: the 'state' handler returns the registry it
\* was given, for every payload, when the id has no entry in it.
C11_UnregisteredStateUpdateIsNoOp ==
  [][ \A s \in SocketIds \ DOMAIN gPlayers, data \in MovePayloads :
           (gLast'.op = "playerMove" /\ GPlayerMove(s, data)) =>
             /\ gPlayers' = gPlayers
             /\ s \notin DOMAIN gPlayers'
             /\ gBullets' = gBullets
             /\ \A t \in SocketIds : gEmitted'[t] = << >>
             /\ \A t \in SocketIds \ {s}, st \in StateUpdates :
                  /\ StateHandler(<< >>, s, st) = << >>
                  /\ StateHandler(Set(<< >>, t, DefaultState), s, st)
                       = Set(<< >>, t, DefaultState) ]_vars

\* a socket that has not joined has just sent a playerMove, while another
\* socket is registered
C11_Witness ==
  /\ gLast.op = "playerMove"
  /\ gLast.id \notin DOMAIN gPlayers
  /\ \E t \in GConnected : t # gLast.id /\ t \in DOMAIN gPlayers

C13_StateUpdateIdempotent ==
  \A s \in Keys(clients), st \in StateUpdates :
    LET once == StateHandler(clients, s, st)
        twice == StateHandler(once, s, st)
    IN /\ twice = once
       /\ Get(twice, s) = Get(once, s)

\* a partial state has been handled for a peer whose entry is no longer the
\* default one, next to the entry of another peer: handling it again is a
\* second application on a state the first one changed
C13_Witness ==
  \E s, t \in Keys(clients) :
    /\ s # t
    /\ updates = 1
    /\ Get(clients, s) = [x |-> 3, y |-> 320, rot |-> 0, hp |-> 4, weapon |-> "pistol"]
    /\ Get(clients, t) = DefaultState

\* C14 as claimed (root server.js): handling a shot leaves what the server
\* stores as it was: gameState.bullets and gameState.players do not change.
C14_FireEventsNotPersisted ==
  [][ \A s \in SocketIds, data \in ShootPayloads :
        (gLast'.op = "playerShoot" /\ GPlayerShoot(s, data)) =>
          /\ gBullets' = gBullets
          /\ gPlayers' = gPlayers ]_vars

====
